---------------------------- MODULE Spec2Model ----------------------------
(* Model of the roadmap utilities of scripts/roadmap:                      *)
(*   generate.py              loader, document renderer, tabular exporter  *)
(*   create_github_issues.py  loader, issue publisher                      *)
(* A text is a sequence of characters; a character is a one-element TLA+   *)
(* string (non-ASCII characters are named by their code point).            *)
EXTENDS Integers, Sequences, FiniteSets, TLC

VARIABLES
    raw,        \* the parsed "tasks" value of the JSON file: a sequence of elements
    topForm,    \* the JSON file: "mapping", "bare" (a list), "missing" or "malformed"
    pc,         \* position of the running entry point
    exitCode,   \* value returned by main(), -1 while running
    stdout,     \* lines printed to standard output
    stderr,     \* number of diagnostics printed to the error stream
    dryRun,     \* args.dry_run
    argRepo,    \* --repo as given on the command line
    envRepo,    \* GH_REPO of the environment
    tasks,      \* publisher: the list returned by its load_tasks
    idx,        \* publisher: index of the task the loop is at
    created,    \* publisher: the created counter
    runs,       \* publisher: the subprocess.run calls made so far, with outcome
    fileMd,     \* generator: content of docs/ROADMAP.md
    fileKanban, \* generator: content of docs/ROADMAP_KANBAN.md
    fileCsv,    \* generator: content of docs/roadmap.csv
    fileImport, \* generator: content of tools/github/issues_import.csv
    cwd,        \* find_repo_root: the working directory, an absolute path
    start,      \* find_repo_root: its argument
    holders,    \* find_repo_root: the directories that hold the JSON file
    cur,        \* find_repo_root: the directory the walk is at
    result      \* find_repo_root: the value returned

pubOnly == <<dryRun, argRepo, envRepo, idx, created, runs>>
genFiles == <<fileMd, fileKanban, fileCsv, fileImport>>
rootVars == <<cwd, start, holders, cur, result>>
vars == <<raw, topForm, pc, exitCode, stdout, stderr, tasks, pubOnly, genFiles, rootVars>>

-----------------------------------------------------------------------------
(* Bounds *)
MaxTasks == 3        \* elements of the list in the JSON file
MaxDescLen == 162    \* longest description given to the renderer
MaxLong == 2         \* elements of a list of records with long descriptions
MaxDepth == 2        \* components of the working directory and of the start path

-----------------------------------------------------------------------------
(* Texts *)
WS == {" ", "\n", "\t", "\r"}

RECURSIVE LStrip(_)
LStrip(s) == IF s = <<>> THEN s
             ELSE IF Head(s) \in WS THEN LStrip(Tail(s)) ELSE s

RECURSIVE RStrip(_)
RStrip(s) == IF s = <<>> THEN s
             ELSE IF s[Len(s)] \in WS THEN RStrip(SubSeq(s, 1, Len(s) - 1)) ELSE s

\* str.strip()
Strip(s) == RStrip(LStrip(s))

\* sep.join(parts)
RECURSIVE Join(_, _)
Join(parts, sep) ==
    IF parts = <<>> THEN <<>>
    ELSE IF Len(parts) = 1 THEN parts[1]
    ELSE parts[1] \o sep \o Join(Tail(parts), sep)

IsBlank(s) == Strip(s) = <<>>

\* the first position from i on that holds a character of the set, or Len + 1
NextIn(text, i, chars) ==
    LET at == {j \in i..Len(text) : text[j] \in chars}
    IN IF at = {} THEN Len(text) + 1 ELSE CHOOSE j \in at : \A k \in at : j <= k

-----------------------------------------------------------------------------
(* JSON values of a record: a key is absent, null, or a text *)
Keys == {"title", "description", "desc", "desciptio", "phase", "status"}

Absent == [k |-> "absent", s |-> <<>>]
Null   == [k |-> "null", s |-> <<>>]
Str(s) == [k |-> "str", s |-> s]

\* dict.get(key): None when the key is missing
Get(t, key) == IF t[key].k = "absent" THEN Null ELSE t[key]

\* dict.get(key, default)
GetDefault(t, key, default) == IF t[key].k = "absent" THEN default ELSE t[key]

\* truth value of a Python object: None and "" are false
Truthy(v) == v.k = "str" /\ v.s # <<>>

\* a or b
Or(a, b) == IF Truthy(a) THEN a ELSE b

\* dict.setdefault(key, default)
SetDefault(t, key, default) ==
    IF t[key].k = "absent" THEN [t EXCEPT ![key] = default] ELSE t

\* f"{v}": None is formatted as the text None
Format(v) == IF v.k = "str" THEN v.s ELSE <<"N", "o", "n", "e">>

Unassigned == <<"U", "n", "a", "s", "s", "i", "g", "n", "e", "d">>
ToDo == <<"T", "o", " ", "D", "o">>
Placeholder == <<"I", "m", "p", "o", "r", "t", "e", "d", " ", "f", "r", "o", "m", " ",
                 "r", "o", "a", "d", "m", "a", "p", ".">>

\* an element of the list: a JSON object (isDict) with its keys, or anything else
Dict(f) == [isDict |-> TRUE, f |-> f]
NonDict == [isDict |-> FALSE, f |-> [key \in Keys |-> Absent]]

-----------------------------------------------------------------------------
(* create_github_issues.py: load_tasks *)
PubNormalize(t) ==
    LET t1 == SetDefault(t, "description",
                         Or(Get(t, "desc"), Or(Get(t, "desciptio"), Str(<<>>))))
        t2 == SetDefault(t1, "phase", Str(Unassigned))
        t3 == SetDefault(t2, "status", Str(ToDo))
    IN t3

PubKeep(e) == e.isDict /\ Truthy(Get(e.f, "title"))

RECURSIVE PubLoadTasks(_)
PubLoadTasks(elems) ==
    IF elems = <<>> THEN <<>>
    ELSE IF PubKeep(Head(elems))
         THEN <<PubNormalize(Head(elems).f)>> \o PubLoadTasks(Tail(elems))
         ELSE PubLoadTasks(Tail(elems))


-----------------------------------------------------------------------------
(* create_github_issues.py: main *)
Gh == <<"g", "h">>
ProbeCmd == <<Gh, <<"-", "-", "v", "e", "r", "s", "i", "o", "n">>>>
OptRepo == <<"-", "-", "r", "e", "p", "o">>
OptTitle == <<"-", "-", "t", "i", "t", "l", "e">>
OptBody == <<"-", "-", "b", "o", "d", "y">>
OptLabel == <<"-", "-", "l", "a", "b", "e", "l">>
PhasePrefix == <<"p", "h", "a", "s", "e", ":">>
StatusPrefix == <<"s", "t", "a", "t", "u", "s", ":">>

\* str(n) for a natural number
Digit(d) == <<"0", "1", "2", "3", "4", "5", "6", "7", "8", "9">>[d + 1]
RECURSIVE IntToStr(_)
IntToStr(n) == IF n < 10 THEN <<Digit(n)>> ELSE IntToStr(n \div 10) \o <<Digit(n % 10)>>

\* parser.add_argument("--repo", default=os.getenv("GH_REPO"))
ArgsRepo == IF argRepo.k # "absent" THEN argRepo ELSE Get([r |-> envRepo], "r")

BaseCmd ==
    <<Gh, <<"i", "s", "s", "u", "e">>, <<"c", "r", "e", "a", "t", "e">>>>
    \o (IF Truthy(ArgsRepo) THEN <<OptRepo, ArgsRepo.s>> ELSE <<>>)

IssueTitle(t) == Strip(t["title"].s)
IssueBody(t) == Strip(Or(Get(t, "description"), Str(Placeholder)).s)
IssueLabels(t) ==
    <<PhasePrefix \o Format(GetDefault(t, "phase", Str(Unassigned))),
      StatusPrefix \o Format(GetDefault(t, "status", Str(ToDo)))>>
IssueCmd(t) ==
    BaseCmd \o <<OptTitle, IssueTitle(t), OptBody, IssueBody(t),
                 OptLabel, Join(IssueLabels(t), <<",">>)>>

\* load_tasks raises: the file is missing or malformed, or the top-level value
\* is a list, which has no get()
PubLoadError ==
    /\ pc = "start"
    /\ topForm # "mapping"
    /\ stderr' = stderr + (IF topForm = "bare" THEN 1 ELSE 2)
    /\ exitCode' = 1
    /\ pc' = "done"
    /\ UNCHANGED <<genFiles, rootVars, raw, topForm, stdout, dryRun, argRepo, envRepo, tasks, idx, created, runs>>

PubNoTasks ==
    /\ pc = "start"
    /\ topForm = "mapping"
    /\ PubLoadTasks(raw) = <<>>
    /\ tasks' = <<>>
    /\ stdout' = Append(stdout, <<"N", "o", " ", "t", "a", "s", "k", "s", " ",
                                  "f", "o", "u", "n", "d", ".">>)
    /\ exitCode' = 1
    /\ pc' = "done"
    /\ UNCHANGED <<genFiles, rootVars, raw, topForm, stderr, dryRun, argRepo, envRepo, idx, created, runs>>

PubLoaded ==
    /\ pc = "start"
    /\ topForm = "mapping"
    /\ PubLoadTasks(raw) # <<>>
    /\ tasks' = PubLoadTasks(raw)
    /\ pc' = "probe"
    /\ UNCHANGED <<genFiles, rootVars, raw, topForm, exitCode, stdout, stderr, dryRun, argRepo, envRepo,
                   idx, created, runs>>

\* subprocess.run(["gh", "--version"], check=True) returns
ProbeOk ==
    /\ pc = "probe"
    /\ runs' = Append(runs, [cmd |-> ProbeCmd, ok |-> TRUE])
    /\ pc' = "repo"
    /\ UNCHANGED <<genFiles, rootVars, raw, topForm, exitCode, stdout, stderr, dryRun, argRepo, envRepo,
                   tasks, idx, created>>

\* variant: a failed probe is reported and the run goes on
ProbeFailIgnored ==
    /\ pc = "probe"
    /\ runs' = Append(runs, [cmd |-> ProbeCmd, ok |-> FALSE])
    /\ stderr' = stderr + 1
    /\ pc' = "repo"
    /\ UNCHANGED <<genFiles, rootVars, raw, topForm, exitCode, stdout, dryRun, argRepo,
                   envRepo, tasks, idx, created>>

\* it raises CalledProcessError or FileNotFoundError
ProbeFail ==
    /\ pc = "probe"
    /\ runs' = Append(runs, [cmd |-> ProbeCmd, ok |-> FALSE])
    /\ stderr' = stderr + 1
    /\ exitCode' = 1
    /\ pc' = "done"
    /\ UNCHANGED <<genFiles, rootVars, raw, topForm, stdout, dryRun, argRepo, envRepo, tasks, idx, created>>

RepoMissing ==
    /\ pc = "repo"
    /\ ~Truthy(ArgsRepo) /\ ~dryRun
    /\ stderr' = stderr + 1
    /\ exitCode' = 1
    /\ pc' = "done"
    /\ UNCHANGED <<genFiles, rootVars, raw, topForm, stdout, dryRun, argRepo, envRepo, tasks, idx, created, runs>>

RepoOk ==
    /\ pc = "repo"
    /\ ~(~Truthy(ArgsRepo) /\ ~dryRun)
    /\ created' = 0
    /\ idx' = 1
    /\ pc' = "loop"
    /\ UNCHANGED <<genFiles, rootVars, raw, topForm, exitCode, stdout, stderr, dryRun, argRepo, envRepo,
                   tasks, runs>>

\* variant: the dry run prints the command and runs it as well
DryPrintExecutes ==
    /\ pc = "loop" /\ idx <= Len(tasks)
    /\ dryRun
    /\ stdout' = Append(stdout, Join(<<<<"D", "R", "Y", ":">>>> \o <<Join(IssueCmd(tasks[idx]), <<" ">>)>>,
                                     <<" ">>))
    /\ runs' = Append(runs, [cmd |-> IssueCmd(tasks[idx]), ok |-> TRUE])
    /\ created' = created + 1
    /\ idx' = idx + 1
    /\ UNCHANGED <<genFiles, rootVars, raw, topForm, pc, exitCode, stderr, dryRun, argRepo,
                   envRepo, tasks>>

DryPrint ==
    /\ pc = "loop" /\ idx <= Len(tasks)
    /\ dryRun
    /\ stdout' = Append(stdout, Join(<<<<"D", "R", "Y", ":">>>> \o <<Join(IssueCmd(tasks[idx]), <<" ">>)>>,
                                     <<" ">>))
    /\ idx' = idx + 1
    /\ UNCHANGED <<genFiles, rootVars, raw, topForm, pc, exitCode, stderr, dryRun, argRepo, envRepo,
                   tasks, created, runs>>

\* subprocess.run(cmd, check=True) returns
CreateOk ==
    /\ pc = "loop" /\ idx <= Len(tasks)
    /\ ~dryRun
    /\ runs' = Append(runs, [cmd |-> IssueCmd(tasks[idx]), ok |-> TRUE])
    /\ created' = created + 1
    /\ stdout' = Append(stdout, <<"C", "r", "e", "a", "t", "e", "d", " ", "i", "s", "s",
                                  "u", "e", ":", " ">> \o IssueTitle(tasks[idx]))
    /\ idx' = idx + 1
    /\ UNCHANGED <<genFiles, rootVars, raw, topForm, pc, exitCode, stderr, dryRun, argRepo, envRepo, tasks>>

\* variant: a failed creation ends the run
CreateFailAborts ==
    /\ pc = "loop" /\ idx <= Len(tasks)
    /\ ~dryRun
    /\ runs' = Append(runs, [cmd |-> IssueCmd(tasks[idx]), ok |-> FALSE])
    /\ stderr' = stderr + 1
    /\ exitCode' = 1
    /\ pc' = "done"
    /\ UNCHANGED <<genFiles, rootVars, raw, topForm, stdout, dryRun, argRepo, envRepo,
                   tasks, idx, created>>

\* it raises CalledProcessError
CreateFail ==
    /\ pc = "loop" /\ idx <= Len(tasks)
    /\ ~dryRun
    /\ runs' = Append(runs, [cmd |-> IssueCmd(tasks[idx]), ok |-> FALSE])
    /\ stderr' = stderr + 1
    /\ idx' = idx + 1
    /\ UNCHANGED <<genFiles, rootVars, raw, topForm, pc, exitCode, stdout, dryRun, argRepo, envRepo,
                   tasks, created>>

DoneLine(n) == <<"D", "o", "n", "e", ".", " ", "C", "r", "e", "a", "t", "e", "d", " ">>
               \o IntToStr(n) \o <<" ", "i", "s", "s", "u", "e", "s", ".">>

PubFinish ==
    /\ pc = "loop" /\ idx > Len(tasks)
    /\ stdout' = Append(stdout, DoneLine(created))
    /\ exitCode' = 0
    /\ pc' = "done"
    /\ UNCHANGED <<genFiles, rootVars, raw, topForm, stderr, dryRun, argRepo, envRepo, tasks, idx, created, runs>>

PubNext ==
    \/ PubLoadError \/ PubNoTasks \/ PubLoaded
    \/ ProbeOk \/ ProbeFail
    \/ RepoMissing \/ RepoOk
    \/ DryPrint \/ CreateOk \/ CreateFail
    \/ PubFinish


-----------------------------------------------------------------------------
(* generate.py: load_tasks *)
GenNormalize(t) ==
    [title |-> Strip(Or(Get(t, "title"), Str(<<>>)).s),
     description |-> Strip(Or(Get(t, "description"),
                              Or(Get(t, "desc"), Or(Get(t, "desciptio"), Str(<<>>)))).s),
     phase |-> Strip(Or(Get(t, "phase"), Str(Unassigned)).s),
     status |-> Strip(Or(Get(t, "status"), Str(ToDo)).s)]

GenKeep(e) == e.isDict /\ GenNormalize(e.f).title # <<>>

RECURSIVE GenLoadTasks(_)
GenLoadTasks(elems) ==
    IF elems = <<>> THEN <<>>
    ELSE IF GenKeep(Head(elems))
         THEN <<GenNormalize(Head(elems).f)>> \o GenLoadTasks(Tail(elems))
         ELSE GenLoadTasks(Tail(elems))

-----------------------------------------------------------------------------
(* generate.py: write_markdown *)
\* the characters of the model in code point order
CharOrder == <<"\t", "\n", "\r", " ", "\"", "#", ",", "-", ".", "/", ":",
               "0", "1", "2", "3", "4", "5", "6", "7", "8", "9",
               "A", "B", "C", "D", "E", "F", "G", "H", "I", "J", "K", "L", "M",
               "N", "O", "P", "Q", "R", "S", "T", "U", "V", "W", "X", "Y", "Z",
               "[", "]", "_", "U+0060",
               "a", "b", "c", "d", "e", "f", "g", "h", "i", "j", "k", "l", "m",
               "n", "o", "p", "q", "r", "s", "t", "u", "v", "w", "x", "y", "z",
               "U+00E2", "U+201D", "U+20AC">>
CharRank(c) == CHOOSE i \in 1..Len(CharOrder) : CharOrder[i] = c

\* str.lower()
LowerChar(c) == IF CharRank(c) >= CharRank("A") /\ CharRank(c) <= CharRank("Z")
                THEN CharOrder[CharRank(c) - CharRank("A") + CharRank("a")]
                ELSE c
Lower(s) == [i \in 1..Len(s) |-> LowerChar(s[i])]

\* a < b on str
RECURSIVE TextLess(_, _)
TextLess(a, b) ==
    IF b = <<>> THEN FALSE
    ELSE IF a = <<>> THEN TRUE
    ELSE IF Head(a) = Head(b) THEN TextLess(Tail(a), Tail(b))
    ELSE CharRank(Head(a)) < CharRank(Head(b))

\* key=lambda x: (x["status"], x["title"].lower()), compared as tuples
SortKeyLess(x, y) ==
    \/ TextLess(x.status, y.status)
    \/ x.status = y.status /\ TextLess(Lower(x.title), Lower(y.title))

\* list.sort is stable: an element goes after the elements whose key is not greater
RECURSIVE InsertSorted(_, _)
InsertSorted(sorted, x) ==
    IF sorted = <<>> THEN <<x>>
    ELSE IF SortKeyLess(x, Head(sorted)) THEN <<x>> \o sorted
    ELSE <<Head(sorted)>> \o InsertSorted(Tail(sorted), x)

RECURSIVE SortBucket(_)
SortBucket(v) ==
    IF v = <<>> THEN <<>>
    ELSE InsertSorted(SortBucket(SubSeq(v, 1, Len(v) - 1)), v[Len(v)])

PhaseNow == <<"N", "o", "w">>
PhaseNext == <<"N", "e", "x", "t">>
PhaseLater == <<"L", "a", "t", "e", "r">>
RenderedPhases == <<PhaseNow, PhaseNext, PhaseLater>>

\* by_phase[phase] after the sort; the buckets are new lists, tasks itself is
\* neither reordered nor changed
PhaseIs(phase, t) == t.phase = phase
ByPhase(ts, phase) ==
    LET Member(t) == PhaseIs(phase, t) IN SortBucket(SelectSeq(ts, Member))

DescLimit == 160
DescKeep == 157
Ellipsis == <<".", ".", ".">>

ReplaceNewlines(s) == [i \in 1..Len(s) |-> IF s[i] = "\n" THEN " " ELSE s[i]]

\* variant: a description of exactly the limit is cut as well
TooLongFromLimit(short) == Len(short) >= DescLimit

TooLong(short) == Len(short) > DescLimit

\* short, as appended to the line of a task whose description is not empty
ShortDescription(description) ==
    LET short == Strip(ReplaceNewlines(description))
    IN IF TooLong(short) THEN SubSeq(short, 1, DescKeep) \o Ellipsis ELSE short

Dash == <<"U+00E2", "U+20AC", "U+201D">>

GroupedLine(t) ==
    <<"-", " ">> \o t.title \o <<" ">> \o Dash \o <<" ">> \o t.status
    \o (IF t.description # <<>>
        THEN <<"\n", " ", " ", "-", " ">> \o ShortDescription(t.description)
        ELSE <<>>)

KanbanLine(t) == <<"-", " ", "[">> \o t.status \o <<"]", " ">> \o t.title

Heading(phase) == <<"#", "#", " ">> \o phase

\* the line of a task in the grouped list or in the kanban view
LineOf(kind, t) == IF kind = "grouped" THEN GroupedLine(t) ELSE KanbanLine(t)

Lines(bucket, kind) == [i \in 1..Len(bucket) |-> LineOf(kind, bucket[i])]

\* the entries appended for one phase: nothing when the bucket is empty
Section(ts, phase, kind) ==
    IF ByPhase(ts, phase) = <<>> THEN <<>>
    ELSE <<Heading(phase)>> \o Lines(ByPhase(ts, phase), kind) \o <<<<>>>>

\* variant: the Unassigned bucket is rendered after the three phases
SectionsWithUnassigned(ts, kind) ==
    Section(ts, RenderedPhases[1], kind) \o Section(ts, RenderedPhases[2], kind)
    \o Section(ts, RenderedPhases[3], kind) \o Section(ts, Unassigned, kind)

Sections(ts, kind) ==
    Section(ts, RenderedPhases[1], kind) \o Section(ts, RenderedPhases[2], kind)
    \o Section(ts, RenderedPhases[3], kind)

MdHeader ==
    <<<<"#", " ", "R", "o", "a", "d", "m", "a", "p">>,
      <<>>,
      <<"S", "o", "u", "r", "c", "e", ":", " ", "U+0060", "b", "l", "a", "c", "k",
        "b", "o", "x", "_", "r", "o", "a", "d", "m", "a", "p", "_", "w", "i",
        "t", "h", "_", "b", "a", "c", "k", "l", "o", "g", ".", "j", "s", "o",
        "n", "U+0060", ".", " ", "P", "h", "a", "s", "e", "s", " ", "r", "e", "f",
        "l", "e", "c", "t", " ", "d", "e", "l", "i", "v", "e", "r", "y", " ",
        "p", "r", "i", "o", "r", "i", "t", "y", ".", " ", "U", "p", "d", "a",
        "t", "e", " ", "w", "i", "t", "h", " ", "U+0060", "p", "y", "t", "h", "o",
        "n", "3", " ", "s", "c", "r", "i", "p", "t", "s", "/", "r", "o", "a",
        "d", "m", "a", "p", "/", "g", "e", "n", "e", "r", "a", "t", "e", ".",
        "p", "y", "U+0060", ".">>,
      <<>>>>

KanbanHeader ==
    <<<<"#", " ", "R", "o", "a", "d", "m", "a", "p", " ", "K", "a", "n", "b", "a", "n">>,
      <<>>,
      <<"V", "i", "s", "u", "a", "l", " ", "g", "r", "o", "u", "p", "i", "n",
        "g", " ", "b", "y", " ", "p", "h", "a", "s", "e", ".", " ", "U", "s",
        "e", " ", "a", "l", "o", "n", "g", "s", "i", "d", "e", " ", "U+0060", "d",
        "o", "c", "s", "/", "R", "O", "A", "D", "M", "A", "P", ".", "m", "d",
        "U+0060", ".">>,
      <<>>>>

\* "\n".join(entries) + "\n"
FileText(entries) == Join(entries, <<"\n">>) \o <<"\n">>

RoadmapMd(ts) == FileText(MdHeader \o Sections(ts, "grouped"))
KanbanMd(ts) == FileText(KanbanHeader \o Sections(ts, "kanban"))

-----------------------------------------------------------------------------
(* generate.py: write_csv, with csv.writer in its default (excel) dialect *)
CsvSpecial == {",", "\"", "\r", "\n"}

\* every quote character is written twice
RECURSIVE DoubleQuotesFrom(_, _)
DoubleQuotesFrom(s, from) ==
    LET j == NextIn(s, from, {"\""})
    IN IF j > Len(s) THEN SubSeq(s, from, Len(s))
       ELSE SubSeq(s, from, j) \o <<"\"">> \o DoubleQuotesFrom(s, j + 1)
DoubleQuotes(s) == DoubleQuotesFrom(s, 1)

\* QUOTE_MINIMAL: a field is quoted when it holds a special character
CsvField(s) ==
    IF \E i \in 1..Len(s) : s[i] \in CsvSpecial
    THEN <<"\"">> \o DoubleQuotes(s) \o <<"\"">>
    ELSE s

\* writer.writerow(fields)
CsvRow(fields) ==
    Join([i \in 1..Len(fields) |-> CsvField(fields[i])], <<",">>) \o <<"\r", "\n">>

CsvRows(rows) == Join([i \in 1..Len(rows) |-> CsvRow(rows[i])], <<>>)

RoadmapHeader == <<<<"t", "i", "t", "l", "e">>,
                   <<"d", "e", "s", "c", "r", "i", "p", "t", "i", "o", "n">>,
                   <<"p", "h", "a", "s", "e">>,
                   <<"s", "t", "a", "t", "u", "s">>>>
\* variant: the last two columns are written in the other order
RoadmapRowSwapped(t) == <<t.title, t.description, t.status, t.phase>>

RoadmapRow(t) == <<t.title, t.description, t.phase, t.status>>

ImportHeader == <<<<"T", "i", "t", "l", "e">>, <<"B", "o", "d", "y">>,
                  <<"L", "a", "b", "e", "l", "s">>>>
ImportBody(t) == IF t.description # <<>> THEN t.description ELSE Placeholder
ImportLabels(t) == <<PhasePrefix \o t.phase, StatusPrefix \o t.status>>
ImportRow(t) == <<t.title, ImportBody(t), Join(ImportLabels(t), <<",">>)>>

RoadmapCsv(ts) ==
    CsvRow(RoadmapHeader) \o CsvRows([i \in 1..Len(ts) |-> RoadmapRow(ts[i])])
ImportCsv(ts) ==
    CsvRow(ImportHeader) \o CsvRows([i \in 1..Len(ts) |-> ImportRow(ts[i])])


-----------------------------------------------------------------------------
(* generate.py: main *)
GenLoadError ==
    /\ pc = "start"
    /\ topForm # "mapping"
    /\ stderr' = stderr + (IF topForm = "bare" THEN 1 ELSE 2)
    /\ exitCode' = 1
    /\ pc' = "done"
    /\ UNCHANGED <<raw, topForm, stdout, tasks, pubOnly, genFiles, rootVars>>

GenLoaded ==
    /\ pc = "start"
    /\ topForm = "mapping"
    /\ tasks' = GenLoadTasks(raw)
    /\ pc' = "markdown"
    /\ UNCHANGED <<raw, topForm, exitCode, stdout, stderr, pubOnly, genFiles, rootVars>>

WriteMarkdown ==
    /\ pc = "markdown"
    /\ fileMd' = RoadmapMd(tasks)
    /\ fileKanban' = KanbanMd(tasks)
    /\ pc' = "csv"
    /\ UNCHANGED <<raw, topForm, exitCode, stdout, stderr, tasks, pubOnly,
                   fileCsv, fileImport, rootVars>>

WriteCsv ==
    /\ pc = "csv"
    /\ fileCsv' = RoadmapCsv(tasks)
    /\ fileImport' = ImportCsv(tasks)
    /\ pc' = "report"
    /\ UNCHANGED <<raw, topForm, exitCode, stdout, stderr, tasks, pubOnly,
                   fileMd, fileKanban, rootVars>>

GeneratedLine(n) ==
    <<"G", "e", "n", "e", "r", "a", "t", "e", "d", " ", "r", "o", "a", "d",
    "m", "a", "p", " ", "a", "s", "s", "e", "t", "s", " ", "f", "o", "r",
    " ">>
    \o IntToStr(n) \o
    <<" ", "t", "a", "s", "k", "s", " ", "u", "n", "d", "e", "r", " ", "d",
    "o", "c", "s", "/", " ", "a", "n", "d", " ", "t", "o", "o", "l", "s",
    "/", "g", "i", "t", "h", "u", "b", "/", ".">>

GenFinish ==
    /\ pc = "report"
    /\ stdout' = Append(stdout, GeneratedLine(Len(tasks)))
    /\ exitCode' = 0
    /\ pc' = "done"
    /\ UNCHANGED <<raw, topForm, stderr, tasks, pubOnly, genFiles, rootVars>>

GenNext == GenLoadError \/ GenLoaded \/ WriteMarkdown \/ WriteCsv \/ GenFinish

-----------------------------------------------------------------------------
(* find_repo_root (the same function in both scripts). A directory is the   *)
(* sequence of the names from the filesystem root, which is <<>>.           *)
\* Path.parent: the root is its own parent
Parent(dir) == IF dir = <<>> THEN <<>> ELSE SubSeq(dir, 1, Len(dir) - 1)

\* Path.resolve(): a relative path is taken from the working directory and
\* ".." components are followed (".." of the root is the root)
RECURSIVE Walk(_, _)
Walk(dir, parts) ==
    IF parts = <<>> THEN dir
    ELSE IF Head(parts) = ".." THEN Walk(Parent(dir), Tail(parts))
    ELSE Walk(Append(dir, Head(parts)), Tail(parts))

Resolve(path) == Walk(IF path.absolute THEN <<>> ELSE cwd, path.parts)

\* (cur / "blackbox_roadmap_with_backlog.json").exists()
Exists(dir) == dir \in holders

\* while cur != cur.parent
AtTop(dir) == dir = Parent(dir)

RootsVarsUnchanged == UNCHANGED <<raw, topForm, exitCode, stdout, stderr, tasks, pubOnly, genFiles>>

RootEnter ==
    /\ pc = "start"
    /\ cur' = Resolve(start)
    /\ pc' = "walk"
    /\ UNCHANGED <<cwd, start, holders, result>>
    /\ RootsVarsUnchanged

RootFound ==
    /\ pc = "walk"
    /\ ~AtTop(cur)
    /\ Exists(cur)
    /\ result' = cur
    /\ pc' = "done"
    /\ UNCHANGED <<cwd, start, holders, cur>>
    /\ RootsVarsUnchanged

RootUp ==
    /\ pc = "walk"
    /\ ~AtTop(cur)
    /\ ~Exists(cur)
    /\ cur' = Parent(cur)
    /\ UNCHANGED <<pc, cwd, start, holders, result>>
    /\ RootsVarsUnchanged

RootFallback ==
    /\ pc = "walk"
    /\ AtTop(cur)
    /\ result' = Resolve(start)
    /\ pc' = "done"
    /\ UNCHANGED <<cwd, start, holders, cur>>
    /\ RootsVarsUnchanged

RootNext == RootEnter \/ RootFound \/ RootUp \/ RootFallback


-----------------------------------------------------------------------------
(* Inputs *)
SeqsUpTo(S, n) == UNION {[1..k -> S] : k \in 0..n}
Rep(c, n) == [i \in 1..n |-> c]

Rec(title, description, desc, desciptio, phase, status) ==
    Dict([key \in Keys |->
            CASE key = "title" -> title
              [] key = "description" -> description
              [] key = "desc" -> desc
              [] key = "desciptio" -> desciptio
              [] key = "phase" -> phase
              [] key = "status" -> status])

Done == <<"D", "o", "n", "e">>
Someday == <<"S", "o", "m", "e", "d", "a", "y">>

\* records that exercise the defaults and the legacy keys of the loaders
LoaderElems ==
    {Rec(Str(<<"A">>), Absent, Absent, Absent, Absent, Absent),
     Rec(Str(<<"b">>), Str(<<"x">>), Absent, Absent, Str(PhaseNow), Str(Done)),
     Rec(Str(<<"A">>), Str(<<>>), Str(<<"y">>), Absent, Str(<<" ">>), Null),
     Rec(Str(<<" ", "c", " ">>), Absent, Absent, Str(<<"z">>), Null, Str(<<>>)),
     Rec(Str(<<"d">>), Str(<<" ">>), Str(<<"y">>), Absent, Str(<<" ">> \o PhaseNext \o <<" ">>),
         Str(<<"\t">>)),
     Rec(Absent, Str(<<"x">>), Absent, Absent, Str(PhaseNow), Str(Done)),
     NonDict}

\* records of the phases, rendered and not
PhaseElems ==
    {Rec(Str(<<"A">>), Absent, Absent, Absent, Str(PhaseNow), Str(ToDo)),
     Rec(Str(<<"a">>), Str(<<"x">>), Absent, Absent, Str(PhaseNow), Str(Done)),
     Rec(Str(<<"B">>), Absent, Absent, Absent, Str(PhaseNext), Str(ToDo)),
     Rec(Str(<<"b">>), Absent, Absent, Absent, Str(PhaseLater), Str(Done)),
     Rec(Str(<<"c">>), Str(<<"x">>), Absent, Absent, Str(Someday), Str(ToDo)),
     Rec(Str(<<"d">>), Absent, Absent, Absent, Absent, Str(ToDo))}

\* records with descriptions around the truncation limit
DescLens == {1} \cup ((DescLimit - 1)..MaxDescLen)
TruncElems ==
    {Rec(Str(<<"A">>), Str(Rep("x", n)), Absent, Absent, Str(PhaseNow), Str(ToDo)) :
        n \in DescLens}
    \cup {Rec(Str(<<"b">>), Str(<<"x", "\n">> \o Rep("y", DescLimit - 1)), Absent, Absent,
              Str(PhaseNext), Str(ToDo)),
          Rec(Str(<<"c">>), Str(Rep("x", DescLimit) \o <<" ">>), Absent, Absent,
              Str(PhaseNext), Str(Done))}

\* records with the characters the tabular format treats specially
CsvElems ==
    {Rec(Str(<<"a", ",", "b">>), Str(<<"\"", "q", "\"">>), Absent, Absent,
         Str(PhaseNow), Str(ToDo)),
     Rec(Str(<<"b">>), Str(<<"x", "\n", "y", "\r", "z">>), Absent, Absent,
         Str(<<"\"">>), Str(<<",">>)),
     Rec(Str(<<"A">>), Str(<<"\"", ",", "\"", "\"">>), Absent, Absent, Absent, Absent),
     Rec(Str(<<"c">>), Absent, Absent, Absent, Str(PhaseNow), Str(Done))}

PubElems == LoaderElems
GenInputs ==
    SeqsUpTo(LoaderElems, MaxTasks) \cup SeqsUpTo(PhaseElems, MaxTasks)
    \cup SeqsUpTo(TruncElems, MaxLong) \cup SeqsUpTo(CsvElems, MaxTasks)

Repo == <<"o", "/", "r">>

InputFile(inputs) ==
    \/ topForm \in {"mapping", "bare"} /\ raw \in inputs
    \/ topForm \in {"missing", "malformed"} /\ raw = <<>>

Running ==
    /\ pc = "start"
    /\ exitCode = -1
    /\ stdout = <<>>
    /\ stderr = 0
    /\ tasks = <<>>

NoPublisher ==
    /\ dryRun = FALSE /\ argRepo = Absent /\ envRepo = Absent
    /\ idx = 0 /\ created = 0 /\ runs = <<>>

NoFiles == fileMd = <<>> /\ fileKanban = <<>> /\ fileCsv = <<>> /\ fileImport = <<>>

NoWalk ==
    /\ cwd = <<>> /\ start = [absolute |-> TRUE, parts |-> <<>>]
    /\ holders = {} /\ cur = <<>> /\ result = <<>>

-----------------------------------------------------------------------------
(* The issue publisher *)
InitPub ==
    /\ InputFile(SeqsUpTo(PubElems, MaxTasks))
    /\ Running
    /\ dryRun \in BOOLEAN
    /\ argRepo \in {Absent, Str(Repo)}
    /\ envRepo \in {Absent, Str(<<>>), Str(Repo)}
    /\ idx = 0 /\ created = 0 /\ runs = <<>>
    /\ NoFiles
    /\ NoWalk

SpecPub == InitPub /\ [][PubNext]_vars

(* The generator *)
InitGen ==
    /\ InputFile(GenInputs)
    /\ Running
    /\ NoPublisher
    /\ NoFiles
    /\ NoWalk

SpecGen == InitGen /\ [][GenNext]_vars

(* find_repo_root *)
Names == {"a", "b"}

RECURSIVE Chain(_)
Chain(dir) == IF dir = <<>> THEN {<<>>} ELSE {dir} \cup Chain(Parent(dir))

InitRoot ==
    /\ raw = <<>> /\ topForm = "mapping"
    /\ Running
    /\ NoPublisher
    /\ NoFiles
    /\ cwd \in SeqsUpTo(Names, MaxDepth)
    /\ start \in [absolute : BOOLEAN, parts : SeqsUpTo(Names \cup {".."}, MaxDepth)]
    /\ holders \in SUBSET Chain(Resolve(start))
    /\ cur = <<>>
    /\ result = <<>>

SpecRoot == InitRoot /\ [][RootNext]_vars


-----------------------------------------------------------------------------
(* Reading the artifacts back *)
Count(seq, x) == Cardinality({i \in DOMAIN seq : seq[i] = x})

StartsWith(s, prefix) ==
    Len(s) >= Len(prefix) /\ SubSeq(s, 1, Len(prefix)) = prefix

\* the lines of a text, each without its "\n"
RECURSIVE SplitLines(_, _)
SplitLines(text, from) ==
    IF from > Len(text) THEN <<>>
    ELSE LET j == NextIn(text, from, {"\n"})
         IN <<SubSeq(text, from, j - 1)>> \o SplitLines(text, j + 1)

\* the entries of a document: for each "- " line the phase of the "## " heading
\* it stands under, and the "  - " line that follows it, if any
RECURSIVE DocEntries(_, _)
DocEntries(lines, phase) ==
    IF lines = <<>> THEN <<>>
    ELSE IF StartsWith(Head(lines), <<"#", "#", " ">>)
         THEN DocEntries(Tail(lines), SubSeq(Head(lines), 4, Len(Head(lines))))
    ELSE IF StartsWith(Head(lines), <<"-", " ">>)
         THEN IF Len(lines) >= 2 /\ StartsWith(lines[2], <<" ", " ", "-", " ">>)
              THEN <<[phase |-> phase, head |-> Head(lines), hasSub |-> TRUE,
                      sub |-> SubSeq(lines[2], 5, Len(lines[2]))]>>
                   \o DocEntries(Tail(Tail(lines)), phase)
              ELSE <<[phase |-> phase, head |-> Head(lines), hasSub |-> FALSE,
                      sub |-> <<>>]>>
                   \o DocEntries(Tail(lines), phase)
    ELSE DocEntries(Tail(lines), phase)

\* the headings of a document, in order
DocHeadings(lines) ==
    LET IsHeading(l) == StartsWith(l, <<"#", "#", " ">>)
        hs == SelectSeq(lines, IsHeading)
    IN [i \in 1..Len(hs) |-> SubSeq(hs[i], 4, Len(hs[i]))]

MdEntries == DocEntries(SplitLines(fileMd, 1), <<>>)
KanbanEntries == DocEntries(SplitLines(fileKanban, 1), <<>>)

\* a reader of the tabular format (csv.reader, excel dialect): the rows of a text
RECURSIVE CsvRead(_, _, _, _, _)
CsvRead(text, i, state, field, row) ==
    IF i > Len(text)
    THEN IF state = "start_record" THEN <<>> ELSE <<Append(row, field)>>
    ELSE LET c == text[i]
             eol == IF c = "\r" /\ i < Len(text) /\ text[i + 1] = "\n" THEN i + 2 ELSE i + 1
             quote == NextIn(text, i, {"\""})
             stop == NextIn(text, i + 1, {",", "\r", "\n"})
         IN
         IF state = "in_quoted"
         THEN CsvRead(text, quote + 1,
                      IF quote > Len(text) THEN "in_quoted" ELSE "quote_in_quoted",
                      field \o SubSeq(text, i, quote - 1), row)
         ELSE IF state = "quote_in_quoted" /\ c = "\""
         THEN CsvRead(text, i + 1, "in_quoted", Append(field, c), row)
         ELSE IF c \in {"\r", "\n"}
         THEN IF state = "start_record"
              THEN <<<<>>>> \o CsvRead(text, eol, "start_record", <<>>, <<>>)
              ELSE <<Append(row, field)>> \o CsvRead(text, eol, "start_record", <<>>, <<>>)
         ELSE IF c = ","
         THEN CsvRead(text, i + 1, "start_field", <<>>, Append(row, field))
         ELSE IF c = "\"" /\ state \in {"start_record", "start_field"}
         THEN CsvRead(text, i + 1, "in_quoted", field, row)
         ELSE CsvRead(text, stop, "in_field", field \o SubSeq(text, i, stop - 1), row)

ParseCsv(text) == CsvRead(text, 1, "start_record", <<>>, <<>>)

\* the value that follows an option in a command line
ArgAfter(cmd, opt) == cmd[1 + CHOOSE i \in 1..Len(cmd) : cmd[i] = opt]

\* the issue-creation commands run so far
IsCreate(run) == run.cmd # ProbeCmd
CreateRuns == SelectSeq(runs, IsCreate)
ProbeSucceeded == runs # <<>> /\ runs[1] = [cmd |-> ProbeCmd, ok |-> TRUE]
ProbeFailed == runs # <<>> /\ runs[1] = [cmd |-> ProbeCmd, ok |-> FALSE]


-----------------------------------------------------------------------------
(* Properties of the issue publisher (SpecPub) *)

DryLine(t) == <<"D", "R", "Y", ":", " ">> \o Join(IssueCmd(t), <<" ">>)

\* C1: outside dry-run, once the probe succeeded and the repository is
\* resolved, a failed creation does not stop the batch: when the loop is at
\* task idx, the tasks before it were each attempted once, in input order,
\* whatever their outcomes, and created counts those that succeeded; the run
\* ends with exit code 0 and reports that count.
C1_FailureIsolation ==
    (~dryRun /\ ProbeSucceeded /\ Truthy(ArgsRepo) /\ pc \in {"loop", "done"}) =>
        /\ Len(CreateRuns) = idx - 1
        /\ \A k \in 1..Len(CreateRuns) : CreateRuns[k].cmd = IssueCmd(tasks[k])
        /\ created = Cardinality({k \in 1..Len(CreateRuns) : CreateRuns[k].ok})
        /\ pc = "done" =>
              /\ Len(CreateRuns) = Len(tasks)
              /\ exitCode = 0
              /\ stdout[Len(stdout)] = DoneLine(created)

\* task 2 of 3 failed, tasks 1 and 3 were created, and the run has ended
C1_Witness ==
    /\ pc = "done" /\ ~dryRun /\ Len(tasks) = 3
    /\ Len(runs) = 4
    /\ runs[2].ok /\ ~runs[3].ok /\ runs[4].ok
    /\ created = 2 /\ exitCode = 0

\* C2 as stated: every dry run over N >= 1 tasks prints N commands, runs no
\* creation command, keeps created at 0, reports 0 created and exits with 0.
C2_DryRunAlways ==
    (dryRun /\ pc = "done" /\ Len(tasks) >= 1) =>
        /\ stdout = [i \in 1..Len(tasks) + 1 |->
                        IF i <= Len(tasks) THEN DryLine(tasks[i]) ELSE DoneLine(0)]
        /\ CreateRuns = <<>>
        /\ created = 0
        /\ exitCode = 0

\* C2 amended: a dry run over N >= 1 tasks whose probe of the external tool
\* succeeded prints N commands, one per task in input order, runs no creation
\* command, keeps created at 0 throughout, reports 0 created and exits with 0,
\* with or without a target repository.
C2_DryRun ==
    /\ dryRun => (created = 0 /\ CreateRuns = <<>>)
    /\ (dryRun /\ pc = "loop") =>
          stdout = [i \in 1..idx - 1 |-> DryLine(tasks[i])]
    /\ (dryRun /\ pc = "done" /\ Len(tasks) >= 1 /\ ProbeSucceeded) =>
          /\ stdout = [i \in 1..Len(tasks) + 1 |->
                          IF i <= Len(tasks) THEN DryLine(tasks[i]) ELSE DoneLine(0)]
          /\ exitCode = 0

\* a finished dry run over three tasks with no target repository
C2_Witness ==
    /\ dryRun /\ pc = "done" /\ Len(tasks) = 3
    /\ ~Truthy(ArgsRepo)
    /\ Len(stdout) = 4 /\ exitCode = 0

\* C3: a failed probe ends the run at once with a non-zero result, nothing
\* constructed, printed or run for any task, in dry-run mode as well; a run
\* outside dry-run with no target repository ends with a non-zero result and
\* no creation command run; and a creation command is only ever run after a
\* successful probe and with a resolved repository.
C3_FailFast ==
    /\ ProbeFailed => (pc = "done" /\ exitCode = 1 /\ Len(runs) = 1 /\ stdout = <<>>)
    /\ (pc = "done" /\ ~dryRun /\ ~Truthy(ArgsRepo)) =>
          (exitCode = 1 /\ CreateRuns = <<>>)
    /\ CreateRuns # <<>> => (ProbeSucceeded /\ Truthy(ArgsRepo) /\ ~IsCreate(runs[1]))
    /\ pc = "loop" => ProbeSucceeded /\ (dryRun \/ Truthy(ArgsRepo))

\* the probe failed in a dry run over three tasks
C3_Witness ==
    /\ ProbeFailed /\ dryRun /\ Len(tasks) = 3
    /\ pc = "done" /\ exitCode = 1

\* C6: each loaded task has as description the first non-empty value among
\* description, desc and desciptio, and the empty text when there is none.
FirstNonEmpty(t) ==
    IF Truthy(Get(t, "description")) THEN t["description"].s
    ELSE IF Truthy(Get(t, "desc")) THEN t["desc"].s
    ELSE IF Truthy(Get(t, "desciptio")) THEN t["desciptio"].s
    ELSE <<>>

C6_FirstNonEmptyDescription ==
    (pc # "start" /\ topForm = "mapping") =>
        LET kept == SelectSeq(raw, PubKeep)
        IN /\ Len(tasks) = Len(kept)
           /\ \A i \in 1..Len(tasks) :
                 tasks[i]["description"] = Str(FirstNonEmpty(kept[i].f))

\* C7: the body of every issue-creation command is the description of its
\* task when that is not empty and the placeholder otherwise, never blank,
\* and its labels are phase:<phase>,status:<status> of the task.
C7_BodyNeverBlank ==
    \A k \in 1..Len(CreateRuns) :
        LET cmd == CreateRuns[k].cmd
            t == tasks[k]
        IN /\ ~IsBlank(ArgAfter(cmd, OptBody))
           /\ ArgAfter(cmd, OptBody) =
                 (IF Truthy(Get(t, "description")) THEN t["description"].s ELSE Placeholder)


-----------------------------------------------------------------------------
(* Properties of the generator (SpecGen) *)
DocsWritten == pc \in {"csv", "report"} \/ (pc = "done" /\ exitCode = 0)
TablesWritten == pc = "report" \/ (pc = "done" /\ exitCode = 0)

Rendered(phase) == \E k \in 1..Len(RenderedPhases) : RenderedPhases[k] = phase

\* C4: every task the loader emits has a phase and a status that are not blank.
C4_PhaseStatusNeverBlank ==
    pc # "start" =>
        \A i \in 1..Len(tasks) : ~IsBlank(tasks[i].phase) /\ ~IsBlank(tasks[i].status)

\* the first line of a task in each document
ExpectedGroupedHead(t) == <<"-", " ">> \o t.title \o <<" ">> \o Dash \o <<" ">> \o t.status
ExpectedKanbanHead(t) == <<"-", " ", "[">> \o t.status \o <<"]", " ">> \o t.title

HeadCount(entries, phase, head) ==
    Cardinality({k \in 1..Len(entries) : entries[k].phase = phase /\ entries[k].head = head})

\* the document shows exactly the tasks of the three phases, each once and
\* under its own heading, the headings in the order Now, Next, Later
ShowsRenderedOnly(text, entries, HeadOf(_)) ==
    LET Populated(phase) == \E i \in 1..Len(tasks) : tasks[i].phase = phase
    IN /\ DocHeadings(SplitLines(text, 1)) = SelectSeq(RenderedPhases, Populated)
       /\ Len(entries) = Cardinality({i \in 1..Len(tasks) : Rendered(tasks[i].phase)})
       /\ \A i \in 1..Len(tasks) :
             Rendered(tasks[i].phase) =>
                HeadCount(entries, tasks[i].phase, HeadOf(tasks[i])) =
                   Cardinality({j \in 1..Len(tasks) :
                                   /\ tasks[j].phase = tasks[i].phase
                                   /\ HeadOf(tasks[j]) = HeadOf(tasks[i])})

\* C5: a task whose phase is not Now, Next or Later is a row of both tabular
\* exports and is in neither document; a task of one of the three phases is
\* in each document exactly once, under the heading of its phase, and the
\* headings come in the order Now, Next, Later.
C5_PhaseSections ==
    /\ DocsWritten =>
          /\ ShowsRenderedOnly(fileMd, MdEntries, ExpectedGroupedHead)
          /\ ShowsRenderedOnly(fileKanban, KanbanEntries, ExpectedKanbanHead)
    /\ TablesWritten =>
          LET generic == ParseCsv(fileCsv)
              import == ParseCsv(fileImport)
          IN \A i \in 1..Len(tasks) :
                ~Rendered(tasks[i].phase) =>
                   /\ \E r \in 2..Len(generic) :
                         /\ generic[r][1] = tasks[i].title
                         /\ generic[r][3] = tasks[i].phase
                   /\ \E r \in 2..Len(import) :
                         /\ import[r][1] = tasks[i].title
                         /\ import[r][3] =
                               PhasePrefix \o tasks[i].phase \o <<",">>
                               \o StatusPrefix \o tasks[i].status

\* tasks of Later, of an unrecognized phase and of Now, in that input order
C5_Witness ==
    /\ pc = "done" /\ exitCode = 0 /\ Len(tasks) = 3
    /\ tasks[1].phase = PhaseLater /\ tasks[2].phase = Someday /\ tasks[3].phase = PhaseNow
    /\ Len(KanbanEntries) = 2 /\ Len(MdEntries) = 2

\* the sub-bullet a task is to have: none for an empty description
ExpectedSub(t) ==
    LET oneLine == Strip(ReplaceNewlines(t.description))
    IN IF t.description = <<>> THEN [hasSub |-> FALSE, sub |-> <<>>]
       ELSE IF Len(oneLine) <= 160 THEN [hasSub |-> TRUE, sub |-> oneLine]
       ELSE [hasSub |-> TRUE, sub |-> SubSeq(oneLine, 1, 157) \o <<".", ".", ".">>]

ExpectedEntry(t) ==
    [phase |-> t.phase, head |-> ExpectedGroupedHead(t),
     hasSub |-> ExpectedSub(t).hasSub, sub |-> ExpectedSub(t).sub]

\* C8: in the grouped document the sub-bullet of a task is its one-line
\* description, unchanged up to 160 characters and cut to its first 157
\* characters plus "..." beyond that; it is never longer than 160 characters,
\* and a task with an empty description has no sub-bullet.
C8_Truncation ==
    DocsWritten =>
        LET entries == MdEntries
            expected == [i \in 1..Len(tasks) |-> ExpectedEntry(tasks[i])]
        IN /\ \A k \in 1..Len(entries) : Len(entries[k].sub) <= 160
           /\ \A i \in 1..Len(tasks) :
                 Rendered(tasks[i].phase) =>
                    Count(entries, expected[i]) = Count(expected, expected[i])

\* descriptions of exactly 160 and of exactly 161 characters were rendered
C8_Witness ==
    /\ pc = "done" /\ exitCode = 0
    /\ \E i, j \in 1..Len(tasks) :
          /\ Len(tasks[i].description) = 160 /\ Rendered(tasks[i].phase)
          /\ Len(tasks[j].description) = 161 /\ Rendered(tasks[j].phase)
    /\ \E k \in 1..Len(MdEntries) : MdEntries[k].sub = Rep("x", 157) \o <<".", ".", ".">>
    /\ \E k \in 1..Len(MdEntries) : MdEntries[k].sub = Rep("x", 160)

\* C9: the generic tabular export, read back, has after its header one row
\* (title, description, phase, status) per task of the normalized list, values
\* verbatim and in input order; rendering the documents first does not change
\* the list.
C9_RoundTrip ==
    /\ pc \in {"markdown", "csv", "report"} => tasks = GenLoadTasks(raw)
    /\ TablesWritten =>
          LET norm == GenLoadTasks(raw)
          IN ParseCsv(fileCsv) =
                <<RoadmapHeader>>
                \o [i \in 1..Len(norm) |->
                       <<norm[i].title, norm[i].description, norm[i].phase, norm[i].status>>]

\* values with separators, quotes and line breaks, in a list that the
\* renderer's sort of the Now bucket orders differently from the input
C9_Witness ==
    /\ pc = "done" /\ exitCode = 0 /\ Len(tasks) = 3
    /\ tasks[1].title = <<"a", ",", "b">> /\ tasks[1].description = <<"\"", "q", "\"">>
    /\ tasks[2].title = <<"c">> /\ tasks[2].phase = tasks[1].phase
    /\ tasks[3].description = <<"x", "\n", "y", "\r", "z">>
    /\ ByPhase(tasks, PhaseNow) = <<tasks[2], tasks[1]>>


-----------------------------------------------------------------------------
(* Properties of find_repo_root (SpecRoot) *)

\* the nearest directory from dir up to and including the filesystem root
\* that holds the file; the resolved start when there is none
RECURSIVE NearestHolder(_)
NearestHolder(dir) ==
    IF dir \in holders THEN dir
    ELSE IF dir = <<>> THEN Resolve(start)
    ELSE NearestHolder(Parent(dir))

\* C10: find_repo_root returns the nearest directory among the start and its
\* ancestors, the filesystem root included, that holds the JSON file, and the
\* resolved start when none of them does.
C10_NearestHolder == pc = "done" => result = NearestHolder(Resolve(start))

=============================================================================
